---- MODULE Spec2Model ----
(***************************************************************************)
(* Model of generate.py (CrosswordCreator): node consistency, revise, AC-3 *)
(* and backtracking search over a crossword puzzle.                        *)
(*                                                                         *)
(* Words are sequences of letters.  Python's 0-based positions are kept in *)
(* the overlap pairs; Letter(w, i) reads position i of w.                  *)
(* Python sets are iterated in an order the program does not control: the  *)
(* order of self.domains (a dict built from the set crossword.variables)   *)
(* is drawn once in Init, every other set iteration is drawn where it      *)
(* happens.                                                                *)
(***************************************************************************)
EXTENDS Integers, Sequences, FiniteSets, TLC

\* Bounds of the model: the largest puzzle (number of slots) and word list.
MaxSlots == 3
MaxWords == 3

Alphabet == {"A", "B"}

\* Every word of length 2 or 3 over the alphabet.
Universe ==
    {<<a, b>> : a \in Alphabet, b \in Alphabet}
        \cup {<<a, b, c>> : a \in Alphabet, b \in Alphabet, c \in Alphabet}

WordLists == {W \in SUBSET Universe : Cardinality(W) <= MaxWords}

\* All enumerations (iteration orders) of a finite set.
Perms(S) ==
    {s \in [1..Cardinality(S) -> S] : \A i, j \in 1..Cardinality(S) : s[i] = s[j] => i = j}

Letter(w, i) == w[i + 1]

-----------------------------------------------------------------------------
(* The puzzle (crossword.py: Variable, Crossword.overlaps, neighbors).      *)
(* A staircase grid of n slots: slot 1 runs across, slot 2 runs down from   *)
(* the last cell of slot 1, slot 3 runs across from the last cell of slot   *)
(* 2, and so on.  Across slots have 3 cells, down slots 2.                  *)

NoOverlap == <<>>

Length(v) == IF v % 2 = 1 THEN 3 ELSE 2

\* crossword.overlaps[x, y]: (position in x, position in y) of the shared cell.
Overlap(x, y) ==
    IF y = x + 1 THEN <<Length(x) - 1, 0>>
    ELSE IF x = y + 1 THEN <<0, Length(y) - 1>>
    ELSE NoOverlap

\* crossword.neighbors(v)
Neighbors(S, v) == {u \in S \ {v} : Overlap(v, u) # NoOverlap}

-----------------------------------------------------------------------------
VARIABLES
    slots,       \* crossword.variables
    words,       \* crossword.words
    order,       \* iteration order of the dict self.domains
    domains,     \* self.domains
    pc,          \* where the program is
    queue,       \* ac3: the list `queue`
    idx,         \* ac3: position of the `for arc in queue` iterator (1-based)
    caller,      \* ac3: who called it ("solve", "backtrack", "api")
    ret,         \* ac3: its return value
    assignment,  \* backtrack: the dict `assignment`, in insertion order
    stack,       \* backtrack: one frame (var, values, next position) per call;
                 \* `saved` notes the domains at the call's latest commit
                 \* (the code keeps no such copy)
    result,      \* what solve returned
    last         \* the last method call observed: its name, arguments x, y
                 \* and a, the domains before it, and what it returned (ret
                 \* for a Boolean, out for a slot or a list)

vars == <<slots, words, order, domains, pc, queue, idx, caller, ret,
          assignment, stack, result, last>>

NoCall ==
    [op |-> "none", x |-> 0, y |-> 0, before |-> <<>>, ret |-> FALSE,
     a |-> <<>>, out |-> <<>>]

Pending == [kind |-> "pending", value |-> <<>>]

-----------------------------------------------------------------------------
(* Pure helpers                                                             *)

\* itertools.combinations(s, 2) as a list
RECURSIVE combinations(_)
combinations(s) ==
    IF Len(s) < 2 THEN <<>>
    ELSE [j \in 1..(Len(s) - 1) |-> <<s[1], s[j + 1]>>] \o combinations(Tail(s))

\* `queue.remove(arc)` left out
ListRemove_nothing(q, e) == q

\* list.remove(e): the first occurrence goes
RECURSIVE ListRemove(_, _)
ListRemove(q, e) ==
    IF q = <<>> THEN <<>>
    ELSE IF q[1] = e THEN Tail(q)
    ELSE <<q[1]>> \o ListRemove(Tail(q), e)

\* sorted(s, key = first component): stable, ascending
RECURSIVE SortedInsert(_, _)
SortedInsert(s, e) ==
    IF s = <<>> THEN <<e>>
    ELSE IF s[1][1] <= e[1] THEN <<s[1]>> \o SortedInsert(Tail(s), e)
    ELSE <<e>> \o s

RECURSIVE sorted(_)
sorted(s) ==
    IF s = <<>> THEN <<>>
    ELSE SortedInsert(sorted(SubSeq(s, 1, Len(s) - 1)), s[Len(s)])

\* keys of the assignment dict
Assigned(a) == {a[i][1] : i \in DOMAIN a}

-----------------------------------------------------------------------------
(* CrosswordCreator's methods as functions of the state they read           *)

\* enforce_node_consistency, inner loop: for x in self.domains[v].copy()
RECURSIVE node_loop(_, _, _)
node_loop(todo, d, v) ==
    IF todo = {} THEN d
    ELSE LET x == CHOOSE w \in todo : TRUE IN
         node_loop(todo \ {x}, IF Len(x) # Length(v) THEN d \ {x} ELSE d, v)

\* Variant: the loop runs over the set it removes from and stops at the first
\* removal, so one call drops at most one word per slot.
enforce_first_only(dom) ==
    [v \in DOMAIN dom |->
        IF \E w \in dom[v] : Len(w) # Length(v)
        THEN dom[v] \ {CHOOSE w \in dom[v] : Len(w) # Length(v)}
        ELSE dom[v]]

enforce_node_consistency(dom) ==
    [v \in DOMAIN dom |-> node_loop(dom[v], dom[v], v)]

\* revise, the loop `for xw in xl`: i is o[0], yl the letters y offers at o[1]
RECURSIVE revise_loop(_, _, _, _, _)
revise_loop(todo, dx, yl, i, revised) ==
    IF todo = {} THEN [dx |-> dx, revised |-> revised]
    ELSE LET xw == CHOOSE w \in todo : TRUE IN
         IF Letter(xw, i) \notin yl
         THEN revise_loop(todo \ {xw}, dx \ {xw}, yl, i, TRUE)
         ELSE revise_loop(todo \ {xw}, dx, yl, i, revised)

\* Variant: the test of line 139 inverted (`in` for `not in`).
revise_inverted(dom, x, y) ==
    LET o == Overlap(x, y) IN
    IF o # NoOverlap
    THEN LET yl == {Letter(w, o[2]) : w \in dom[y]}
             gone == {w \in dom[x] : Letter(w, o[1]) \in yl}
         IN [domains |-> [dom EXCEPT ![x] = dom[x] \ gone], revised |-> gone # {}]
    ELSE [domains |-> dom, revised |-> FALSE]

\* Variant: `revised = True` one level out, set for every word visited.
revise_flag_early(dom, x, y) ==
    LET o == Overlap(x, y) IN
    IF o # NoOverlap
    THEN LET yl == {Letter(w, o[2]) : w \in dom[y]}
             gone == {w \in dom[x] : Letter(w, o[1]) \notin yl}
         IN [domains |-> [dom EXCEPT ![x] = dom[x] \ gone], revised |-> dom[x] # {}]
    ELSE [domains |-> dom, revised |-> FALSE]

\* revise(x, y): the domains after the call and the value returned
revise(dom, x, y) ==
    LET o == Overlap(x, y) IN
    IF o # NoOverlap
    THEN LET yl == {Letter(w, o[2]) : w \in dom[y]}
             r == revise_loop(dom[x], dom[x], yl, o[1], FALSE)
         IN [domains |-> [dom EXCEPT ![x] = r.dx], revised |-> r.revised]
    ELSE [domains |-> dom, revised |-> FALSE]

\* Variant: sizes compared instead of keys, one short.
assignment_complete_short(ord, a) ==
    Len(a) >= Len(ord) - 1

\* Variant: an empty dict is never complete (`if not assignment: return
\* False` ahead of the loop).
assignment_complete_nonempty(ord, a) ==
    /\ a # <<>>
    /\ \A k \in DOMAIN ord : ord[k] \in Assigned(a)

assignment_complete(ord, a) ==
    \A k \in DOMAIN ord : ord[k] \in Assigned(a)

\* the word the dict holds for key v
Value(a, v) == a[CHOOSE k \in DOMAIN a : a[k][1] = v][2]

\* Variant: the overlap check (lines 205-214) left out.
consistent_no_overlaps(a) ==
    /\ \A i, j \in DOMAIN a : a[i][2] = a[j][2] => a[i][1] = a[j][1]
    /\ \A k \in DOMAIN a : Len(a[k][2]) = Length(a[k][1])

\* Variant: the distinctness check (lines 195-198) left out.
consistent_no_duplicates(a) ==
    /\ \A k \in DOMAIN a : Len(a[k][2]) = Length(a[k][1])
    /\ \A i, j \in DOMAIN a :
          LET o == Overlap(a[i][1], a[j][1]) IN
          (a[i][1] # a[j][1] /\ o # NoOverlap) =>
              Letter(a[i][2], o[1]) = Letter(a[j][2], o[2])

consistent(a) ==
    LET duplicates ==
            {a[i][1] : i \in {k \in DOMAIN a :
                \E j \in DOMAIN a : a[k][2] = a[j][2] /\ a[k][1] # a[j][1]}}
        cs == combinations([k \in DOMAIN a |-> a[k][1]])
    IN IF duplicates # {} THEN FALSE
       ELSE IF \E k \in DOMAIN a : Len(a[k][2]) # Length(a[k][1]) THEN FALSE
       ELSE \A k \in DOMAIN cs :
                LET o == Overlap(cs[k][1], cs[k][2]) IN
                o # NoOverlap =>
                    Letter(Value(a, cs[k][1]), o[1]) = Letter(Value(a, cs[k][2]), o[2])

\* Variant: line 227 without `if v not in assignment`, so the words of
\* assigned neighbors are counted too.
order_counts_assigned(dom, var, a, enum) ==
    LET neighbors == Neighbors(DOMAIN dom, var)
        count(value) ==
            Cardinality({p \in UNION {{<<n, w>> : w \in dom[n]} : n \in neighbors} :
                Letter(value, Overlap(var, p[1])[1])
                    # Letter(p[2], Overlap(var, p[1])[2])})
        dv == [k \in 1..Len(enum) |-> <<count(enum[k]), enum[k]>>]
        s == sorted(dv)
    IN IF Cardinality(dom[var]) = 1 THEN enum
       ELSE [k \in 1..Len(s) |-> s[k][2]]

\* order_domain_values(var, assignment); enum is the order in which the set
\* self.domains[var] is iterated
order_domain_values(dom, var, a, enum) ==
    LET neighbors == {v \in Neighbors(DOMAIN dom, var) : v \notin Assigned(a)}
        count(value) ==
            Cardinality({p \in UNION {{<<n, w>> : w \in dom[n]} : n \in neighbors} :
                /\ Overlap(var, p[1]) # NoOverlap
                /\ Letter(value, Overlap(var, p[1])[1])
                       # Letter(p[2], Overlap(var, p[1])[2])})
        dv == [k \in 1..Len(enum) |-> <<count(enum[k]), enum[k]>>]
        s == sorted(dv)
    IN IF Cardinality(dom[var]) = 1 THEN enum
       ELSE [k \in 1..Len(s) |-> s[k][2]]

\* select_unassigned_variable, the loop `for v in min_rv` (lines 283-287)
RECURSIVE degree_loop(_, _, _, _)
degree_loop(S, rv, max, acc) ==
    IF rv = <<>> THEN acc
    ELSE LET d == Cardinality(Neighbors(S, rv[1])) IN
         IF d >= max
         THEN degree_loop(S, Tail(rv), d, Append(acc, <<d, rv[1]>>))
         ELSE degree_loop(S, Tail(rv), max, acc)

\* Variant: line 288 without reverse=True.
select_degree_ascending(dom, ord, a) ==
    LET ks == SelectSeq(ord, LAMBDA k : k \notin Assigned(a))
        l == [k \in 1..Len(ks) |-> <<Cardinality(dom[ks[k]]), ks[k]>>]
        unassigned == sorted(l)
        min == unassigned[1][1]
        pre == SelectSeq(unassigned, LAMBDA e : e[1] = min)
        min_rv == [k \in 1..Len(pre) |-> pre[k][2]]
        max_degrees == degree_loop(DOMAIN dom, min_rv, -1, <<>>)
    IN IF Len(min_rv) = 1 THEN min_rv[1] ELSE sorted(max_degrees)[1][2]

\* Variant: line 264 sorts from high to low, so the slot with the most
\* remaining values comes first.
select_most_values(dom, ord, a) ==
    LET ks == SelectSeq(ord, LAMBDA k : k \notin Assigned(a))
        l == [k \in 1..Len(ks) |-> <<0 - Cardinality(dom[ks[k]]), ks[k]>>]
        unassigned == sorted(l)
        min == unassigned[1][1]
        pre == SelectSeq(unassigned, LAMBDA e : e[1] = min)
        min_rv == [k \in 1..Len(pre) |-> pre[k][2]]
        max_degrees == degree_loop(DOMAIN dom, min_rv, -1, <<>>)
        neg == sorted([k \in 1..Len(max_degrees) |->
                          <<0 - max_degrees[k][1], max_degrees[k][2]>>])
    IN IF Len(min_rv) = 1 THEN min_rv[1] ELSE neg[1][2]

select_unassigned_variable(dom, ord, a) ==
    LET ks == SelectSeq(ord, LAMBDA k : k \notin Assigned(a))
        l == [k \in 1..Len(ks) |-> <<Cardinality(dom[ks[k]]), ks[k]>>]
        unassigned == sorted(l)
        min == unassigned[1][1]
        pre == SelectSeq(unassigned, LAMBDA e : e[1] = min)
        min_rv == [k \in 1..Len(pre) |-> pre[k][2]]
        max_degrees == degree_loop(DOMAIN dom, min_rv, -1, <<>>)
        \* sorted(..., reverse=True) keeps the order of equal keys
        neg == sorted([k \in 1..Len(max_degrees) |->
                          <<0 - max_degrees[k][1], max_degrees[k][2]>>])
    IN IF Len(min_rv) = 1 THEN min_rv[1] ELSE neg[1][2]

-----------------------------------------------------------------------------
(* The state after CrosswordCreator(crossword): every slot's domain is a    *)
(* copy of the whole word list (lines 15-19).                               *)

Constructed(entry) ==
    /\ \E n \in 0..MaxSlots : slots = 1..n
    /\ words \in WordLists
    /\ order \in Perms(slots)
    /\ domains = [v \in slots |-> words]
    /\ pc = entry
    /\ queue = <<>>
    /\ idx = 1
    /\ caller = "none"
    /\ ret = FALSE
    /\ assignment = <<>>
    /\ stack = <<>>
    /\ result = Pending
    /\ last = NoCall

Init == Constructed("solve")

-----------------------------------------------------------------------------
(* solve()                                                                  *)

\* lines 95-96 and 154-156: node consistency, then ac3() starts with all arcs
Solve ==
    /\ pc = "solve"
    /\ domains' = enforce_node_consistency(domains)
    /\ last' = [op |-> "enforce_node_consistency", x |-> 0, y |-> 0,
                before |-> domains, ret |-> FALSE,
                a |-> <<>>, out |-> <<>>]
    /\ queue' = combinations(order)
    /\ idx' = 1
    /\ caller' = "solve"
    /\ pc' = "ac3"
    /\ UNCHANGED <<slots, words, order, ret, assignment, stack, result>>

-----------------------------------------------------------------------------
(* ac3(): `while queue != []: for arc in queue: ...` (lines 162-175)        *)

\* one pass of the for loop's body: the iterator yields queue[idx], the arc
\* is removed from the list, revised, and on a revision the arcs (z, arc[0])
\* are appended
Ac3Step ==
    /\ pc = "ac3"
    /\ idx <= Len(queue)
    /\ LET arc == queue[idx]
           q == ListRemove(queue, arc)
           r == revise(domains, arc[1], arc[2])
       IN /\ domains' = r.domains
          /\ last' = [op |-> "revise", x |-> arc[1], y |-> arc[2],
                      before |-> domains, ret |-> r.revised,
                      a |-> <<>>, out |-> <<>>]
          /\ idx' = idx + 1
          /\ IF r.revised /\ r.domains[arc[1]] = {}
             THEN /\ queue' = q
                  /\ ret' = FALSE
                  /\ pc' = "ac3_return"
             ELSE /\ \E zs \in Perms(Neighbors(slots, arc[1])) :
                        queue' = IF r.revised
                                 THEN q \o [k \in 1..Len(zs) |-> <<zs[k], arc[1]>>]
                                 ELSE q
                  /\ UNCHANGED <<ret, pc>>
    /\ UNCHANGED <<slots, words, order, caller, assignment, stack, result>>

\* the for loop ran off the end of the list and the list is not empty: the
\* while loop starts a new for loop
Ac3Restart ==
    /\ pc = "ac3"
    /\ idx > Len(queue)
    /\ queue # <<>>
    /\ idx' = 1
    /\ UNCHANGED <<slots, words, order, domains, pc, queue, caller, ret,
                   assignment, stack, result, last>>

\* `return True` moved into the while loop, after the first for loop
Ac3True_after_first_pass ==
    /\ pc = "ac3"
    /\ idx > Len(queue)
    /\ ret' = TRUE
    /\ pc' = "ac3_return"
    /\ UNCHANGED <<slots, words, order, domains, queue, idx, caller,
                   assignment, stack, result, last>>

\* line 175
Ac3True ==
    /\ pc = "ac3"
    /\ queue = <<>>
    /\ ret' = TRUE
    /\ pc' = "ac3_return"
    /\ UNCHANGED <<slots, words, order, domains, queue, idx, caller,
                   assignment, stack, result, last>>

\* back in the caller: solve drops the value (line 96) and calls
\* backtrack(dict()); backtrack recurses on True (lines 315-316) and goes to
\* line 319 on False
Ac3Return ==
    /\ pc = "ac3_return"
    /\ caller \in {"solve", "backtrack"}
    /\ pc' = IF caller = "solve" \/ ret THEN "backtrack" ELSE "undo"
    /\ UNCHANGED <<slots, words, order, domains, queue, idx, caller, ret,
                   assignment, stack, result, last>>

-----------------------------------------------------------------------------
(* backtrack(assignment) (lines 293-322)                                    *)

\* lines 302-306: return the complete assignment (every caller hands it on,
\* lines 317-318), or select a variable and order its values
Backtrack ==
    /\ pc = "backtrack"
    /\ IF assignment_complete(order, assignment)
       THEN /\ result' = [kind |-> "assignment", value |-> assignment]
            /\ stack' = <<>>
            /\ pc' = "done"
       ELSE IF slots \subseteq Assigned(assignment)
       THEN \* line 266: unassigned[0] of an empty list
            /\ result' = [kind |-> "IndexError", value |-> <<>>]
            /\ pc' = "raised"
            /\ UNCHANGED stack
       ELSE LET var == select_unassigned_variable(domains, order, assignment) IN
            /\ \E enum \in Perms(domains[var]) :
                  stack' = Append(stack,
                      [var |-> var,
                       values |-> order_domain_values(domains, var, assignment, enum),
                       i |-> 1,
                       saved |-> domains])
            /\ pc' = "loop"
            /\ UNCHANGED result
    /\ UNCHANGED <<slots, words, order, domains, queue, idx, caller, ret,
                   assignment, last>>

\* lines 306-314: the next value of the innermost call's for loop
BacktrackValue ==
    /\ pc = "loop"
    /\ LET f == stack[Len(stack)] IN
       /\ f.i <= Len(f.values)
       /\ LET copy == Append(assignment, <<f.var, f.values[f.i]>>) IN
          /\ stack' = [stack EXCEPT ![Len(stack)].i = f.i + 1,
                                    ![Len(stack)].saved = domains]
          /\ IF consistent(copy)
             THEN /\ assignment' = copy
                  /\ \E a \in Perms(slots \ Assigned(copy)) :
                        queue' = combinations(a)
                  /\ idx' = 1
                  /\ caller' = "backtrack"
                  /\ pc' = "ac3"
             ELSE UNCHANGED <<assignment, queue, idx, caller, pc>>
    /\ UNCHANGED <<slots, words, order, domains, ret, result, last>>

\* line 322: the for loop is over, this call returns None; the caller, if
\* any, is at line 317 with result None and goes on to line 319
BacktrackNone ==
    /\ pc = "loop"
    /\ stack[Len(stack)].i > Len(stack[Len(stack)].values)
    /\ stack' = SubSeq(stack, 1, Len(stack) - 1)
    /\ IF Len(stack) = 1
       THEN /\ result' = [kind |-> "None", value |-> <<>>]
            /\ pc' = "done"
       ELSE /\ pc' = "undo"
            /\ UNCHANGED result
    /\ UNCHANGED <<slots, words, order, domains, queue, idx, caller, ret,
                   assignment, last>>

\* line 319: assignment.remove(var).  A dict has no method remove: the call
\* raises AttributeError, which nothing catches (lines 306-322, 338).
Undo ==
    /\ pc = "undo"
    /\ result' = [kind |-> "AttributeError", value |-> <<>>]
    /\ pc' = "raised"
    /\ UNCHANGED <<slots, words, order, domains, queue, idx, caller, ret,
                   assignment, stack, last>>

Next ==
    \/ Solve
    \/ Ac3Step
    \/ Ac3Restart
    \/ Ac3True
    \/ Ac3Return
    \/ Backtrack
    \/ BacktrackValue
    \/ BacktrackNone
    \/ Undo

Spec == Init /\ [][Next]_vars

-----------------------------------------------------------------------------
(* The propagation methods called directly, in any order, on a constructed  *)
(* CrosswordCreator.                                                        *)

\* Neither method depends on the order in which self.domains is iterated
\* (enforce_node_consistency visits every slot, revise reads two entries),
\* so one order stands for all.
InitApi ==
    /\ Constructed("api")
    /\ order = [k \in 1..Cardinality(slots) |-> k]

\* every word of every domain fits its slot (what revise's indexing needs)
NodeConsistent(dom) ==
    \A v \in DOMAIN dom : \A w \in dom[v] : Len(w) = Length(v)

ApiEnforce ==
    /\ pc = "api"
    /\ domains' = enforce_node_consistency(domains)
    /\ last' = [op |-> "enforce_node_consistency", x |-> 0, y |-> 0,
                before |-> domains, ret |-> FALSE,
                a |-> <<>>, out |-> <<>>]
    /\ UNCHANGED <<slots, words, order, pc, queue, idx, caller, ret,
                   assignment, stack, result>>

ApiRevise ==
    /\ pc = "api"
    /\ NodeConsistent(domains)
    /\ \E x \in slots, y \in slots :
          /\ x # y
          /\ LET r == revise(domains, x, y) IN
             /\ domains' = r.domains
             /\ last' = [op |-> "revise", x |-> x, y |-> y,
                         before |-> domains, ret |-> r.revised,
                      a |-> <<>>, out |-> <<>>]
    /\ UNCHANGED <<slots, words, order, pc, queue, idx, caller, ret,
                   assignment, stack, result>>

\* select_unassigned_variable and order_domain_values change nothing, so
\* what can follow such a call is what could follow before it: the calls
\* below are the last of their run (pc = "api_read").  They read the
\* domains only, and every value the domains take is first reached by the
\* constructor, by enforce_node_consistency or by a revise that removed a
\* word: the calls are made from those states (FreshDomains).
FreshDomains == last.op = "revise" => last.ret

\* An assignment argument with the keys A.  Neither method below reads the
\* words of the assignment (lines 227 and 262 test the keys only).
ArgAssignment(A) ==
    LET ks == SelectSeq(order, LAMBDA k : k \in A)
    IN [k \in 1..Len(ks) |-> <<ks[k], CHOOSE w \in words : TRUE>>]

\* select_unassigned_variable(assignment), some slot being unassigned
ApiSelect ==
    /\ pc = "api"
    /\ FreshDomains
    /\ words # {}
    /\ \E A \in SUBSET slots :
          /\ A # slots
          /\ last' = [op |-> "select_unassigned_variable", x |-> 0, y |-> 0,
                      before |-> domains, ret |-> FALSE,
                      a |-> ArgAssignment(A),
                      out |-> select_unassigned_variable(domains, order,
                                                         ArgAssignment(A))]
    /\ pc' = "api_read"
    /\ UNCHANGED <<slots, words, order, domains, queue, idx, caller, ret,
                   assignment, stack, result>>

\* order_domain_values(var, assignment)
ApiOrder ==
    /\ pc = "api"
    /\ FreshDomains
    /\ words # {}
    /\ NodeConsistent(domains)
    /\ \E var \in slots :
          \E enum \in Perms(domains[var]), A \in SUBSET (slots \ {var}) :
              last' = [op |-> "order_domain_values", x |-> var, y |-> 0,
                       before |-> domains, ret |-> FALSE,
                       a |-> ArgAssignment(A),
                       out |-> order_domain_values(domains, var,
                                                   ArgAssignment(A), enum)]
    /\ pc' = "api_read"
    /\ UNCHANGED <<slots, words, order, domains, queue, idx, caller, ret,
                   assignment, stack, result>>

NextApi ==
    \/ ApiEnforce
    \/ ApiRevise
    \/ ApiSelect
    \/ ApiOrder

SpecApi == InitApi /\ [][NextApi]_vars

-----------------------------------------------------------------------------
(* Properties                                                               *)

Returned == pc \in {"done", "raised"}

Solved == pc = "done" /\ result.kind = "assignment"

\* a complete consistent assignment of the puzzle exists
SolutionExists ==
    \E f \in [slots -> words] :
        /\ \A v \in slots : Len(f[v]) = Length(v)
        /\ \A u, v \in slots : f[u] = f[v] => u = v
        /\ \A u, v \in slots :
              (u # v /\ Overlap(u, v) # NoOverlap) =>
                  Letter(f[u], Overlap(u, v)[1]) = Letter(f[v], Overlap(u, v)[2])

\* C1: when solve() returns an assignment, the words of every two
\* overlapping slots have the same letter at the shared cell.
C1_OverlapsAgree ==
    Solved =>
        \A X \in Assigned(result.value), Y \in Assigned(result.value) :
            (X # Y /\ Overlap(X, Y) # NoOverlap) =>
                Letter(Value(result.value, X), Overlap(X, Y)[1])
                    = Letter(Value(result.value, Y), Overlap(X, Y)[2])

\* a returned assignment of three slots, where the domain of one slot still
\* holds a word that clashes with the word returned for its neighbor
C1_Witness ==
    /\ Solved
    /\ Len(result.value) = 3
    /\ \E X \in slots, Y \in slots :
          /\ X # Y
          /\ Overlap(X, Y) # NoOverlap
          /\ \E w \in domains[X] :
                Letter(w, Overlap(X, Y)[1])
                    # Letter(Value(result.value, Y), Overlap(X, Y)[2])

\* C2: when solve() returns an assignment, no two distinct slots hold the
\* same word.
C2_WordsDistinct ==
    Solved =>
        \A i, j \in DOMAIN result.value :
            result.value[i][2] = result.value[j][2] => i = j

\* a returned assignment in which the word of one slot is still in the
\* domain of another slot
C2_Witness ==
    /\ Solved
    /\ \E i, j \in DOMAIN result.value :
          i # j /\ result.value[i][2] \in domains[result.value[j][1]]

\* C3: when solve() returns an assignment, every slot of the puzzle has a
\* word and the word has the slot's length.
C3_CompleteAndFitting ==
    Solved =>
        /\ slots \subseteq Assigned(result.value)
        /\ \A k \in DOMAIN result.value :
              Len(result.value[k][2]) = Length(result.value[k][1])

\* a returned assignment of a puzzle with slots of both lengths
C3_Witness ==
    /\ Solved
    /\ \E u, v \in slots : Length(u) # Length(v)

\* C4: whenever a complete consistent assignment exists, solve() ends by
\* returning an assignment, not None and not an exception.
C4_Complete ==
    (Returned /\ SolutionExists) => result.kind = "assignment"

\* C5: whenever no complete consistent assignment exists, solve() ends by
\* returning None, never by raising.
C5_NoSolutionIsNone ==
    (Returned /\ ~SolutionExists) => result.kind = "None"

\* every word of every domain has a partner in each neighbor's domain
ArcConsistent(dom) ==
    \A v \in DOMAIN dom : \A n \in Neighbors(DOMAIN dom, v) : \A x \in dom[v] :
        \E y \in dom[n] : Letter(y, Overlap(v, n)[2]) = Letter(x, Overlap(v, n)[1])

\* C6: when the ac3() of solve (all slot pairs, node-consistent domains)
\* returns True, the domains are arc consistent.
C6_ArcConsistentAfterAc3 ==
    (pc = "ac3_return" /\ caller = "solve" /\ ret) => ArcConsistent(domains)

\* C7: ac3 returns True exactly when no domain is empty at its return.
C7_TrueIffNoEmptyDomain ==
    pc = "ac3_return" => (ret <=> \A v \in slots : domains[v] # {})

\* C8: after revise(X, Y) the domain of X holds exactly the words of its
\* previous domain that have a partner in the domain of Y (all of them when
\* X and Y do not overlap), and no other domain has changed.
C8_ReviseResult ==
    last.op = "revise" =>
        LET o == Overlap(last.x, last.y) IN
        /\ o # NoOverlap =>
              domains[last.x] =
                  {x \in last.before[last.x] :
                      \E y \in last.before[last.y] : Letter(y, o[2]) = Letter(x, o[1])}
        /\ o = NoOverlap => domains[last.x] = last.before[last.x]
        /\ \A v \in slots \ {last.x} : domains[v] = last.before[v]

\* a revise that removed some words of X and kept others
C8_Witness ==
    /\ last.op = "revise"
    /\ domains[last.x] # {}
    /\ domains[last.x] # last.before[last.x]

\* C9: revise returns False exactly when it leaves the domain of X as it
\* was.
C9_ReviseReturn ==
    last.op = "revise" =>
        (last.ret = FALSE <=> domains[last.x] = last.before[last.x])

\* a revise of two overlapping slots that returned False with words in both
\* domains
C9_Witness ==
    /\ last.op = "revise"
    /\ Overlap(last.x, last.y) # NoOverlap
    /\ ~last.ret
    /\ domains[last.x] # {}
    /\ domains[last.y] # {}

\* C10: after enforce_node_consistency every word of every domain has its
\* slot's length, and a second run changes nothing.
C10_NodeConsistencyIdempotent ==
    last.op = "enforce_node_consistency" =>
        /\ \A v \in slots : \A w \in domains[v] : Len(w) = Length(v)
        /\ enforce_node_consistency(domains) = domains

\* a run that removed two words from one domain and kept another
C10_Witness ==
    /\ last.op = "enforce_node_consistency"
    /\ \E v \in slots :
          /\ domains[v] # {}
          /\ Cardinality(last.before[v] \ domains[v]) >= 2

\* number of words in the domains of the unassigned neighbors of var that
\* differ from value at the shared cell
Conflicts(dom, var, a, value) ==
    Cardinality(UNION {
        {<<n, w>> : w \in {y \in dom[n] :
            Letter(y, Overlap(var, n)[2]) # Letter(value, Overlap(var, n)[1])}} :
        n \in Neighbors(DOMAIN dom, var) \ Assigned(a)})

\* C11: select_unassigned_variable returns an unassigned slot whose domain
\* is smallest among the unassigned slots and whose neighbor count is
\* largest among the unassigned slots with a domain of that size.
C11_SelectMrvDegree ==
    last.op = "select_unassigned_variable" =>
        LET free == slots \ Assigned(last.a)
            v == last.out
        IN /\ v \in free
           /\ \A u \in free : Cardinality(domains[v]) <= Cardinality(domains[u])
           /\ \A u \in free :
                 Cardinality(domains[u]) = Cardinality(domains[v]) =>
                     Cardinality(Neighbors(slots, u)) <= Cardinality(Neighbors(slots, v))

\* a call in which two unassigned slots tie on domain size and the one
\* returned has more neighbors than the other
C11_Witness ==
    /\ last.op = "select_unassigned_variable"
    /\ \E u \in slots \ Assigned(last.a) :
          /\ u # last.out
          /\ Cardinality(domains[u]) = Cardinality(domains[last.out])
          /\ Cardinality(Neighbors(slots, u)) < Cardinality(Neighbors(slots, last.out))
    /\ \E u \in slots \ Assigned(last.a) :
          Cardinality(domains[u]) > Cardinality(domains[last.out])

\* C12: order_domain_values returns every word of domains[slot] exactly
\* once and nothing else, with conflict counts that never decrease along
\* the list.
C12_OrderByConflicts ==
    last.op = "order_domain_values" =>
        /\ Len(last.out) = Cardinality(domains[last.x])
        /\ {last.out[k] : k \in DOMAIN last.out} = domains[last.x]
        /\ \A i \in 1..(Len(last.out) - 1) :
              Conflicts(domains, last.x, last.a, last.out[i])
                  <= Conflicts(domains, last.x, last.a, last.out[i + 1])

\* a call with an assigned and an unassigned neighbor that returned words
\* of different conflict counts
C12_Witness ==
    /\ last.op = "order_domain_values"
    /\ Neighbors(slots, last.x) \cap Assigned(last.a) # {}
    /\ \E i, j \in DOMAIN last.out :
          Conflicts(domains, last.x, last.a, last.out[i])
              < Conflicts(domains, last.x, last.a, last.out[j])

\* some slot has no word of its length in the word list
SlotWithoutWord == \E v \in slots : \A w \in words : Len(w) # Length(v)

\* C13: when some slot has no word of its length, solve() returns None and
\* does not raise.
C13_NoFittingWordIsNone ==
    (Returned /\ SlotWithoutWord) => result.kind = "None"

\* solve() has returned for a puzzle in which one slot has no fitting word
\* while the domain of another slot still holds words
C13_Witness ==
    /\ Returned
    /\ SlotWithoutWord
    /\ \E v \in slots : domains[v] # {}

\* C14: for a puzzle without slots solve() returns the empty assignment.
C14_NoSlotsEmptyAssignment ==
    (Returned /\ slots = {}) => result = [kind |-> "assignment", value |-> <<>>]

\* solve() has returned for a puzzle without slots and a word list with
\* words
C14_Witness ==
    /\ Returned
    /\ slots = {}
    /\ words # {}

\* the innermost active call of backtrack
Top == stack[Len(stack)]

\* C15: when a committed value fails (ac3 returned False or the recursive
\* call returned None), var is removed from the assignment and the loop
\* goes on with the next value of var.
C15_FailedValueIsUndone ==
    [][pc = "undo" =>
          /\ pc' = "loop"
          /\ Top.var \notin Assigned(assignment')]_vars

\* C16: when a committed branch has failed, the domains are again what
\* they were before the branch's ac3 call.
C16_DomainsRestored ==
    (pc = "raised" /\ stack # <<>>) => domains = Top.saved

\* no two slots share a word, every word fits its slot, overlapping slots
\* agree on the shared letter
AssignmentConsistent(a) ==
    /\ \A i, j \in DOMAIN a : (i # j) => a[i][2] # a[j][2]
    /\ \A i \in DOMAIN a : Len(a[i][2]) = Length(a[i][1])
    /\ \A i, j \in DOMAIN a :
          (i # j /\ Overlap(a[i][1], a[j][1]) # NoOverlap) =>
              Letter(a[i][2], Overlap(a[i][1], a[j][1])[1])
                  = Letter(a[j][2], Overlap(a[i][1], a[j][1])[2])

\* C17: the assignment is consistent after every step of backtrack, and a
\* candidate value that is not consistent with it leaves it unchanged.
C17_AssignmentStaysConsistent ==
    [][/\ AssignmentConsistent(assignment')
       /\ (/\ pc = "loop"
           /\ Top.i <= Len(Top.values)
           /\ ~AssignmentConsistent(Append(assignment, <<Top.var, Top.values[Top.i]>>)))
          => assignment' = assignment]_vars

\* a call of backtrack with a slot already assigned has passed over a
\* value and is still in its loop
C17_Witness ==
    /\ pc = "loop"
    /\ assignment # <<>>
    /\ Top.i > 1

\* C18: the ac3 call of backtrack never revises an assigned slot, and at
\* its return the domain of every assigned slot is what it was at the call.
C18_AssignedSlotsUntouched ==
    /\ (caller = "backtrack" /\ pc = "ac3" /\ idx <= Len(queue)) =>
          queue[idx][1] \notin Assigned(assignment)
    /\ (caller = "backtrack" /\ pc = "ac3_return") =>
          \A v \in Assigned(assignment) : domains[v] = Top.saved[v]

\* how many times the arc e is in the worklist q
Count(q, e) == Cardinality({k \in DOMAIN q : q[k] = e})

\* the arcs of the puzzle's slots
Arcs == slots \X slots

\* C19: in ac3, a revise(X, Y) that removes a value and leaves domain[X]
\* non-empty adds the arc (Z, X) for every neighbor Z of X other than Y;
\* an arc leaves the worklist only by being revised, and ac3 returns True
\* only when the worklist is empty.
C19_EnqueueAndDrain ==
    [][pc = "ac3" =>
          /\ (pc' = "ac3_return" /\ ret') => queue = <<>>
          /\ IF idx' = idx + 1
             THEN LET X == last'.x
                      Y == last'.y
                  IN /\ last'.op = "revise"
                     /\ Count(queue, <<X, Y>>) >= 1
                     /\ \A e \in Arcs :
                           Count(queue', e) >=
                               Count(queue, e) - (IF e = <<X, Y>> THEN 1 ELSE 0)
                     /\ (last'.ret /\ domains'[X] # {}) =>
                           \A Z \in Neighbors(slots, X) \ {Y} :
                               Count(queue', <<Z, X>>) > Count(queue, <<Z, X>>)
             ELSE queue' = queue]_vars

\* a revision has just left domain[X] non-empty, X has a neighbor other
\* than Y, and the arcs towards X are in the worklist
C19_Witness ==
    /\ pc = "ac3"
    /\ last.op = "revise"
    /\ last.ret
    /\ domains[last.x] # {}
    /\ Neighbors(slots, last.x) \ {last.y} # {}
    /\ \A Z \in Neighbors(slots, last.x) \ {last.y} :
          Count(queue, <<Z, last.x>>) >= 1

-----------------------------------------------------------------------------
(* ac3(arcs) called on its own, after enforce_node_consistency(), with any  *)
(* short list of arcs (lines 145-175).                                      *)

\* Bound of the model: the longest list of arcs handed to ac3.
MaxArcs == 2

ArcLists ==
    UNION {[1..k -> {e \in slots \X slots : e[1] # e[2]}] : k \in 0..MaxArcs}

InitAc3 ==
    /\ Constructed("call_ac3")
    /\ order = [k \in 1..Cardinality(slots) |-> k]

\* lines 154-159 with arcs given: queue = arcs
Ac3Call ==
    /\ pc = "call_ac3"
    /\ domains' = enforce_node_consistency(domains)
    /\ last' = [op |-> "enforce_node_consistency", x |-> 0, y |-> 0,
                before |-> domains, ret |-> FALSE,
                a |-> <<>>, out |-> <<>>]
    /\ queue' \in ArcLists
    /\ idx' = 1
    /\ caller' = "api"
    /\ pc' = "ac3"
    /\ UNCHANGED <<slots, words, order, ret, assignment, stack, result>>

NextAc3 ==
    \/ Ac3Call
    \/ Ac3Step
    \/ Ac3Restart
    \/ Ac3True

\* the interpreter keeps running the call: a step that can be taken is taken
SpecAc3 == InitAc3 /\ [][NextAc3]_vars /\ WF_vars(NextAc3)

\* C20: every call of ac3 on node-consistent domains returns (True or
\* False) after finitely many steps, and no step of the call adds a word to
\* a domain.
C20_Ac3Terminates ==
    /\ (pc = "ac3") ~> (pc = "ac3_return")
    /\ [][pc = "ac3" => \A v \in slots : domains'[v] \subseteq domains[v]]_vars

\* a call has returned True after removing a word from a domain
C20_Witness ==
    /\ pc = "ac3_return"
    /\ caller = "api"
    /\ ret
    /\ \E v \in slots : domains[v] # {w \in words : Len(w) = Length(v)}

====
